---- MODULE Spec2Model ----
(***************************************************************************)
(* The AWS KMS key manager plugin of pkg/kms/kms.go: the entries map       *)
(* guarded by p.mu, the reconciliation done by Configure, the GenerateKey  *)
(* / SignData / GetPublicKey(s) handlers running as concurrent calls, and  *)
(* the KMS backend they talk to.                                           *)
(*                                                                         *)
(* Strings are sequences of tokens; the description prefix                 *)
(* "SPIRE_SERVER_KEY:" is the single token keyPrefix.  Times are counted   *)
(* in ticks, TicksPerSec ticks to the second, so that time.Time.Unix()     *)
(* (whole seconds) is a truncation.                                        *)
(***************************************************************************)
EXTENDS Integers, Sequences, FiniteSets

VARIABLES
    entries,    \* p.entries: spire key id -> keyEntry
    configured, \* "new" after New(), "ok" / "err" once Configure returned
    log,        \* key ids for which Configure logged "Failed to process kms key."
    kms,        \* the backend: sequence of keys, the key id is the index
    now,        \* the backend's clock, in ticks
    delReqs,    \* ScheduleKeyDeletion requests received, per key id
    signReqs,   \* the SignInput records the backend received
    calls,      \* one record per inbound call: its request, position and locals
    conv        \* inputs and outputs of the mapping functions applied on their own

vars == <<entries, configured, log, kms, now, delReqs, signReqs, calls, conv>>

-----------------------------------------------------------------------------
(* Bounds *)

NCalls == 2         \* concurrent inbound calls, numbered in order of invocation
NSeqCalls == 3      \* inbound calls made one after the other
TicksPerSec == 2    \* clock resolution below one second
MaxTime == 3        \* last tick of the backend clock
MaxIdLen == 3       \* tokens in a spire key id a label is written for

Calls == 1 .. NCalls
SeqCalls == 1 .. NSeqCalls

-----------------------------------------------------------------------------
(* Vocabulary *)

keyPrefix == "SPIRE_SERVER_KEY:"

\* keymanager.KeyType, with one value outside the enumeration
KeyTypes == {"UNSPECIFIED_KEY_TYPE", "EC_P256", "EC_P384",
             "RSA_1024", "RSA_2048", "RSA_4096", "KeyType_99"}

\* kms.CustomerMasterKeySpec*
KeySpecs == {"RSA_2048", "RSA_3072", "RSA_4096", "ECC_NIST_P256",
             "ECC_NIST_P384", "ECC_NIST_P521", "ECC_SECG_P256K1",
             "SYMMETRIC_DEFAULT"}

\* spire key ids the callers ask for
SpireKeyIds == {<<"a">>, <<"b">>}

\* key types the callers ask GenerateKey for
GenKeyTypes == {"RSA_1024", "EC_P384"}

NoErr == "nil"

-----------------------------------------------------------------------------
(* Type mapping *)

\* keyTypeFromKeySpec with the two curves exchanged
keyTypeFromKeySpec_CurvesSwapped(keySpec) ==
    CASE keySpec = "RSA_2048" -> [keyType |-> "RSA_2048", err |-> NoErr]
      [] keySpec = "RSA_4096" -> [keyType |-> "RSA_4096", err |-> NoErr]
      [] keySpec = "ECC_NIST_P256" -> [keyType |-> "EC_P384", err |-> NoErr]
      [] keySpec = "ECC_NIST_P384" -> [keyType |-> "EC_P256", err |-> NoErr]
      [] OTHER -> [keyType |-> "UNSPECIFIED_KEY_TYPE", err |-> "unsupported"]

keyTypeFromKeySpec(keySpec) ==
    CASE keySpec = "RSA_2048" -> [keyType |-> "RSA_2048", err |-> NoErr]
      [] keySpec = "RSA_4096" -> [keyType |-> "RSA_4096", err |-> NoErr]
      [] keySpec = "ECC_NIST_P256" -> [keyType |-> "EC_P256", err |-> NoErr]
      [] keySpec = "ECC_NIST_P384" -> [keyType |-> "EC_P384", err |-> NoErr]
      [] OTHER -> [keyType |-> "UNSPECIFIED_KEY_TYPE", err |-> "unsupported"]

\* keySpecFromKeyType taking the RSA_1024 case for an RSA key the backend has
keySpecFromKeyType_Rsa1024Accepted(keyType) ==
    CASE keyType = "RSA_1024" -> [keySpec |-> "RSA_2048", err |-> NoErr]
      [] keyType = "RSA_2048" -> [keySpec |-> "RSA_2048", err |-> NoErr]
      [] keyType = "RSA_4096" -> [keySpec |-> "RSA_4096", err |-> NoErr]
      [] keyType = "EC_P256" -> [keySpec |-> "ECC_NIST_P256", err |-> NoErr]
      [] keyType = "EC_P384" -> [keySpec |-> "ECC_NIST_P384", err |-> NoErr]
      [] OTHER -> [keySpec |-> "", err |-> "unknown and unsupported"]

keySpecFromKeyType(keyType) ==
    CASE keyType = "RSA_1024" -> [keySpec |-> "", err |-> "unsupported"]
      [] keyType = "RSA_2048" -> [keySpec |-> "RSA_2048", err |-> NoErr]
      [] keyType = "RSA_4096" -> [keySpec |-> "RSA_4096", err |-> NoErr]
      [] keyType = "EC_P256" -> [keySpec |-> "ECC_NIST_P256", err |-> NoErr]
      [] keyType = "EC_P384" -> [keySpec |-> "ECC_NIST_P384", err |-> NoErr]
      [] OTHER -> [keySpec |-> "", err |-> "unknown and unsupported"]

-----------------------------------------------------------------------------
(* Strings and times *)

\* strings.HasPrefix(s, keyPrefix)
HasPrefix(s) == Len(s) >= 1 /\ s[1] = keyPrefix

\* strings.SplitAfter(s, keyPrefix): s cut after every occurrence of keyPrefix
RECURSIVE SplitAfter(_)
SplitAfter(s) ==
    IF \A i \in 1 .. Len(s) : s[i] # keyPrefix
    THEN <<s>>
    ELSE LET i == CHOOSE j \in 1 .. Len(s) :
                    /\ s[j] = keyPrefix
                    /\ \A k \in 1 .. (j - 1) : s[k] # keyPrefix
         IN <<SubSeq(s, 1, i)>> \o SplitAfter(SubSeq(s, i + 1, Len(s)))

\* descSplit[1] of processKMSKey (Go indexes from 0)
SpireKeyIdOf(description) == SplitAfter(description)[2]

\* fmt.Sprintf("%v%v", keyPrefix, spireKeyID)
DescriptionOf(spireKeyID) == <<keyPrefix>> \o spireKeyID

\* time.Time.Unix(): whole seconds
Unix(t) == t \div TicksPerSec

-----------------------------------------------------------------------------
(* Key Entry Store *)

NilEntry ==
    [AwsKeyID |-> 0, CreationDate |-> 0,
     PublicKey |-> [Id |-> <<>>, Type |-> "UNSPECIFIED_KEY_TYPE", PkixData |-> 0]]

NilPublicKey == NilEntry.PublicKey

\* a map holding nothing but spireKeyID bound to e
MapSet_DropOthers(es, spireKeyID, e) == [k \in {spireKeyID} |-> e]

\* the map p.entries with spireKeyID bound to e
MapSet(es, spireKeyID, e) ==
    [k \in (DOMAIN es) \cup {spireKeyID} |-> IF k = spireKeyID THEN e ELSE es[k]]

\* setEntry rejecting an entry of the same second as the stored one
setEntry_RejectTies(es, spireKeyID, newEntry) ==
    IF /\ spireKeyID \in DOMAIN es
       /\ Unix(es[spireKeyID].CreationDate) >= Unix(newEntry.CreationDate)
    THEN [entries |-> es, ok |-> FALSE]
    ELSE [entries |-> MapSet(es, spireKeyID, newEntry), ok |-> TRUE]

\* setEntry without the comparison of creation dates
setEntry_NoCompare(es, spireKeyID, newEntry) ==
    [entries |-> MapSet(es, spireKeyID, newEntry), ok |-> TRUE]

\* setEntry under p.mu: the map afterwards and the returned bool
setEntry(es, spireKeyID, newEntry) ==
    IF /\ spireKeyID \in DOMAIN es
       /\ Unix(es[spireKeyID].CreationDate) > Unix(newEntry.CreationDate)
    THEN [entries |-> es, ok |-> FALSE]
    ELSE [entries |-> MapSet(es, spireKeyID, newEntry), ok |-> TRUE]

\* entry reporting every key as present
entry_AlwaysFound(es, spireKeyID) ==
    [value |-> IF spireKeyID \in DOMAIN es THEN es[spireKeyID] ELSE NilEntry,
     hasKey |-> TRUE]

\* entry under p.mu: (value, hasKey)
entry(es, spireKeyID) ==
    IF spireKeyID \in DOMAIN es
    THEN [value |-> es[spireKeyID], hasKey |-> TRUE]
    ELSE [value |-> NilEntry, hasKey |-> FALSE]

\* publicKeys under p.mu; the order of a map range is unspecified
publicKeys(es) == {es[k].PublicKey : k \in DOMAIN es}

EmptyMap == [k \in {} |-> NilEntry]

-----------------------------------------------------------------------------
(* The KMS backend *)

\* a key as DescribeKey and GetPublicKey show it
KmsKey(spec, enabled, description, creationDate, pkix) ==
    [CustomerMasterKeySpec |-> spec, Enabled |-> enabled,
     Description |-> description, CreationDate |-> creationDate,
     PublicKey |-> pkix, KeyState |-> IF enabled THEN "Enabled" ELSE "Disabled"]

\* CreateKey: a new enabled key stamped with the backend's creation time,
\* its key id the next index
CreateKey(k, spec, description, creationDate) ==
    Append(k, KmsKey(spec, TRUE, description, creationDate, Len(k) + 1))

\* ScheduleKeyDeletion accepted by the backend: the key is pending deletion
\* and no longer enabled
ScheduleKeyDeletion(k, keyId) ==
    [k EXCEPT ![keyId].KeyState = "PendingDeletion", ![keyId].Enabled = FALSE]

\* the outcomes of one backend call
Outcomes == {NoErr, "BackendFailure"}

\* the backends Configure may find
InitKeyChoices ==
    { KmsKey("ECC_NIST_P256", TRUE, <<keyPrefix, "a">>, 0, 0),
      KmsKey("RSA_2048", TRUE, <<keyPrefix, "a">>, 1, 0),
      KmsKey("ECC_NIST_P384", TRUE, <<keyPrefix, "b">>, 1, 0),
      KmsKey("SYMMETRIC_DEFAULT", TRUE, <<keyPrefix, "a">>, 0, 0),
      KmsKey("ECC_NIST_P256", FALSE, <<keyPrefix, "b">>, 1, 0),
      KmsKey("RSA_2048", TRUE, <<"x", keyPrefix, "a">>, 0, 0),
      KmsKey("ECC_NIST_P521", FALSE, <<"a">>, 0, 0),
      KmsKey("ECC_NIST_P384", TRUE, <<keyPrefix, "a">>, TicksPerSec, 0) }

InitBackends ==
    {<<>>} \cup { <<x>> : x \in InitKeyChoices }
           \cup { <<x, y>> : x \in InitKeyChoices, y \in InitKeyChoices }

\* the backends the concurrent calls start from
ServingBackends ==
    { <<>>,
      <<KmsKey("ECC_NIST_P256", TRUE, <<keyPrefix, "a">>, 0, 0)>>,
      <<KmsKey("RSA_2048", TRUE, <<keyPrefix, "a">>, 1, 0)>> }

\* the public key material of a key is named by its key id
WithKeyIds(k) == [i \in 1 .. Len(k) |-> [k[i] EXCEPT !.PublicKey = i]]

-----------------------------------------------------------------------------
(* Reconciliation *)

\* processKMSKey without the test of KeyMetadata.Enabled
processKMSKey_IgnoreEnabled(es, k, awsKeyID, describeErr, pubErr) ==
    LET meta == k[awsKeyID]
        kt == keyTypeFromKeySpec(meta.CustomerMasterKeySpec)
    IN IF describeErr # NoErr THEN [entries |-> es, err |-> describeErr]
       ELSE IF kt.err # NoErr THEN [entries |-> es, err |-> kt.err]
       ELSE IF HasPrefix(meta.Description)
       THEN IF pubErr # NoErr THEN [entries |-> es, err |-> pubErr]
            ELSE LET spireKeyID == SpireKeyIdOf(meta.Description)
                     e == [AwsKeyID |-> awsKeyID,
                           CreationDate |-> meta.CreationDate,
                           PublicKey |-> [Id |-> spireKeyID,
                                          Type |-> kt.keyType,
                                          PkixData |-> meta.PublicKey]]
                 IN [entries |-> setEntry(es, spireKeyID, e).entries,
                     err |-> NoErr]
       ELSE [entries |-> es, err |-> NoErr]

\* processKMSKey: describeErr and pubErr are the outcomes of the two
\* backend calls; yields the map afterwards and the returned error
processKMSKey(es, k, awsKeyID, describeErr, pubErr) ==
    LET meta == k[awsKeyID]
        kt == keyTypeFromKeySpec(meta.CustomerMasterKeySpec)
    IN IF describeErr # NoErr THEN [entries |-> es, err |-> describeErr]
       ELSE IF kt.err # NoErr THEN [entries |-> es, err |-> kt.err]
       ELSE IF meta.Enabled /\ HasPrefix(meta.Description)
       THEN IF pubErr # NoErr THEN [entries |-> es, err |-> pubErr]
            ELSE LET spireKeyID == SpireKeyIdOf(meta.Description)
                     e == [AwsKeyID |-> awsKeyID,
                           CreationDate |-> meta.CreationDate,
                           PublicKey |-> [Id |-> spireKeyID,
                                          Type |-> kt.keyType,
                                          PkixData |-> meta.PublicKey]]
                 IN [entries |-> setEntry(es, spireKeyID, e).entries,
                     err |-> NoErr]
       ELSE [entries |-> es, err |-> NoErr]

\* the loop of Configure leaving at the first key that fails
RECURSIVE ProcessKeys_StopAtError(_, _, _, _, _, _, _)
ProcessKeys_StopAtError(es, lg, k, keys, describeErrs, pubErrs, i) ==
    IF i > Len(keys) THEN [entries |-> es, log |-> lg]
    ELSE LET r == processKMSKey(es, k, keys[i], describeErrs[keys[i]],
                                pubErrs[keys[i]])
         IN IF r.err # NoErr
            THEN [entries |-> es,
                  log |-> lg \cup {[KeyId |-> keys[i], error |-> r.err]}]
            ELSE ProcessKeys_StopAtError(r.entries, lg, k, keys, describeErrs,
                                         pubErrs, i + 1)

\* the loop of Configure over listKeysResp.Keys: the map and the log after
\* the keys from position i on
RECURSIVE ProcessKeys(_, _, _, _, _, _, _)
ProcessKeys(es, lg, k, keys, describeErrs, pubErrs, i) ==
    IF i > Len(keys) THEN [entries |-> es, log |-> lg]
    ELSE LET r == processKMSKey(es, k, keys[i], describeErrs[keys[i]],
                                pubErrs[keys[i]])
         IN ProcessKeys(r.entries,
                        IF r.err # NoErr
                        THEN lg \cup {[KeyId |-> keys[i], error |-> r.err]}
                        ELSE lg,
                        k, keys, describeErrs, pubErrs, i + 1)

\* the orders in which ListKeys may return the key ids of k
Listings(k) ==
    { s \in [1 .. Len(k) -> 1 .. Len(k)] :
        \A i, j \in 1 .. Len(k) : i # j => s[i] # s[j] }

\* Configure, from the ListKeys call on
Configure ==
    /\ configured = "new"
    /\ \E listErr \in Outcomes :
         IF listErr # NoErr
         THEN /\ configured' = "err"
              /\ UNCHANGED <<entries, log>>
         ELSE \E keys \in Listings(kms),
                 describeErrs \in [1 .. Len(kms) -> Outcomes],
                 pubErrs \in [1 .. Len(kms) -> Outcomes] :
                LET r == ProcessKeys(entries, log, kms, keys, describeErrs,
                                     pubErrs, 1)
                IN /\ entries' = r.entries
                   /\ log' = r.log
                   /\ configured' = "ok"
    /\ UNCHANGED <<kms, now, delReqs, signReqs, calls, conv>>

-----------------------------------------------------------------------------
(* Inbound calls *)

NewCall ==
    [pc |-> "new", kind |-> "none", KeyId |-> <<>>,
     KeyType |-> "UNSPECIFIED_KEY_TYPE",
     newEntry |-> NilEntry, oldEntry |-> NilEntry, hasOldEntry |-> FALSE,
     put |-> "none", del |-> 0, keyEntry |-> NilEntry, cancelled |-> FALSE,
     err |-> NoErr, PublicKey |-> NilPublicKey, PublicKeys |-> {}]

\* call c may be invoked: the plugin is configured, and calls are numbered
\* in the order of their invocation
CanInvoke(c) ==
    /\ configured = "ok"
    /\ calls[c].pc = "new"
    /\ c > 1 => calls[c - 1].pc # "new"

Return(c, rec) == calls' = [calls EXCEPT ![c] = rec]

\* the outcomes of a backend call made with the ctx of call c: once the ctx
\* is cancelled the call returns the cancellation error
OutcomesFor(c) ==
    IF calls[c].cancelled THEN {"RequestCanceled"} ELSE Outcomes

\* the ctx of call c is cancelled, before the handler runs or while it does
Cancel(c) ==
    /\ CanInvoke(c) \/ calls[c].pc \notin {"new", "done"}
    /\ ~calls[c].cancelled
    /\ Return(c, [calls[c] EXCEPT !.cancelled = TRUE])
    /\ UNCHANGED <<entries, configured, log, kms, now, delReqs, signReqs, conv>>

\* the signing algorithm SignData asks for
SigningAlgorithm(keyType) == "ECDSA_SHA_256"

\* the deletion condition without the outcome of setEntry
Replaced_IgnoreOk(hasOldEntry, ok) == hasOldEntry

\* if hasOldEntry && ok: an old entry was replaced by a new one
Replaced(hasOldEntry, ok) == hasOldEntry /\ ok

\* the deletion request naming the new key
DeletionInput_NewKey(oldEntry, newEntry) == newEntry.AwsKeyID

\* ScheduleKeyDeletionInput{KeyId: &oldEntry.AwsKeyID}
DeletionInput(oldEntry, newEntry) == oldEntry.AwsKeyID

\* GenerateKey up to the return of CreateKey
GenerateKey_CreateKey(c, spireKeyID, keyType) ==
    /\ CanInvoke(c)
    /\ LET req == [calls[c] EXCEPT !.kind = "GenerateKey",
                                   !.KeyId = spireKeyID, !.KeyType = keyType]
           m == keySpecFromKeyType(keyType)
       IN IF m.err # NoErr
          THEN /\ Return(c, [req EXCEPT !.pc = "done", !.err = m.err])
               /\ UNCHANGED <<kms, now>>
          ELSE \E createErr \in OutcomesFor(c) :
                 IF createErr = "RequestCanceled"
                 THEN /\ Return(c, [req EXCEPT !.pc = "done", !.err = createErr])
                      /\ \/ UNCHANGED <<kms, now>>
                         \/ /\ kms' = CreateKey(kms, m.keySpec,
                                                 DescriptionOf(spireKeyID), now)
                            /\ UNCHANGED now
                 ELSE IF createErr # NoErr
                 THEN /\ Return(c, [req EXCEPT !.pc = "done", !.err = createErr])
                      /\ UNCHANGED <<kms, now>>
                 ELSE \E t \in now .. MaxTime :
                        /\ kms' = CreateKey(kms, m.keySpec,
                                            DescriptionOf(spireKeyID), t)
                        /\ now' = t
                        /\ Return(c, [req EXCEPT
                                        !.pc = "GetPublicKey",
                                        !.newEntry.AwsKeyID = Len(kms) + 1,
                                        !.newEntry.CreationDate = t])
    /\ UNCHANGED <<entries, configured, log, delReqs, signReqs, conv>>

\* GenerateKey from the return of CreateKey to the built newEntry
GenerateKey_GetPublicKey(c) ==
    /\ calls[c].pc = "GetPublicKey"
    /\ \E pubErr \in OutcomesFor(c) :
         IF pubErr # NoErr
         THEN Return(c, [calls[c] EXCEPT !.pc = "done", !.err = pubErr])
         ELSE Return(c, [calls[c] EXCEPT
                !.pc = "entry",
                !.newEntry.PublicKey =
                    [Id |-> calls[c].KeyId, Type |-> calls[c].KeyType,
                     PkixData |-> kms[calls[c].newEntry.AwsKeyID].PublicKey]])
    /\ UNCHANGED <<entries, configured, log, kms, now, delReqs, signReqs, conv>>

\* oldEntry, hasOldEntry := p.entry(spireKeyID)
GenerateKey_entry(c) ==
    /\ calls[c].pc = "entry"
    /\ LET r == entry(entries, calls[c].KeyId)
       IN Return(c, [calls[c] EXCEPT !.pc = "setEntry",
                                     !.oldEntry = r.value,
                                     !.hasOldEntry = r.hasKey])
    /\ UNCHANGED <<entries, configured, log, kms, now, delReqs, signReqs, conv>>

\* ok := p.setEntry(spireKeyID, newEntry), and the return when nothing is
\* to be deleted
GenerateKey_setEntry(c) ==
    /\ calls[c].pc = "setEntry"
    /\ LET r == setEntry(entries, calls[c].KeyId, calls[c].newEntry)
       IN /\ entries' = r.entries
          /\ IF Replaced(calls[c].hasOldEntry, r.ok)
             THEN Return(c, [calls[c] EXCEPT !.pc = "ScheduleKeyDeletion",
                                             !.put = "accepted"])
             ELSE Return(c, [calls[c] EXCEPT
                    !.pc = "done",
                    !.put = IF r.ok THEN "accepted" ELSE "rejected",
                    !.PublicKey = calls[c].newEntry.PublicKey])
    /\ UNCHANGED <<configured, log, kms, now, delReqs, signReqs, conv>>

\* the ScheduleKeyDeletion call putting the old entry back when it fails
GenerateKey_ScheduleKeyDeletion_Rollback(c) ==
    /\ calls[c].pc = "ScheduleKeyDeletion"
    /\ LET keyId == DeletionInput(calls[c].oldEntry, calls[c].newEntry)
       IN /\ delReqs' = [delReqs EXCEPT ![keyId] = @ + 1]
          /\ \E delErr \in OutcomesFor(c) :
               IF delErr # NoErr
               THEN /\ Return(c, [calls[c] EXCEPT !.pc = "done", !.del = keyId,
                                                  !.err = delErr])
                    /\ entries' = MapSet(entries, calls[c].KeyId,
                                         calls[c].oldEntry)
                    /\ UNCHANGED kms
               ELSE /\ Return(c, [calls[c] EXCEPT
                          !.pc = "done", !.del = keyId,
                          !.PublicKey = calls[c].newEntry.PublicKey])
                    /\ kms' = ScheduleKeyDeletion(kms, keyId)
                    /\ UNCHANGED entries
    /\ UNCHANGED <<configured, log, now, signReqs, conv>>

\* the ScheduleKeyDeletion call for the old entry, and the return
GenerateKey_ScheduleKeyDeletion(c) ==
    /\ calls[c].pc = "ScheduleKeyDeletion"
    /\ LET keyId == DeletionInput(calls[c].oldEntry, calls[c].newEntry)
       IN /\ delReqs' = [delReqs EXCEPT ![keyId] = @ + 1]
          /\ \E delErr \in OutcomesFor(c) :
               IF delErr # NoErr
               THEN /\ Return(c, [calls[c] EXCEPT !.pc = "done", !.del = keyId,
                                                  !.err = delErr])
                    /\ UNCHANGED kms
               ELSE /\ Return(c, [calls[c] EXCEPT
                          !.pc = "done", !.del = keyId,
                          !.PublicKey = calls[c].newEntry.PublicKey])
                    /\ kms' = ScheduleKeyDeletion(kms, keyId)
    /\ UNCHANGED <<entries, configured, log, now, signReqs, conv>>

\* SignData up to keyEntry, hasKey := p.entry(req.KeyId)
SignData_entry(c, spireKeyID) ==
    /\ CanInvoke(c)
    /\ LET req == [calls[c] EXCEPT !.kind = "SignData", !.KeyId = spireKeyID]
           r == entry(entries, spireKeyID)
       IN IF ~r.hasKey
          THEN Return(c, [req EXCEPT !.pc = "done",
                                     !.err = "unable to find KeyId"])
          ELSE Return(c, [req EXCEPT !.pc = "Sign", !.keyEntry = r.value])
    /\ UNCHANGED <<entries, configured, log, kms, now, delReqs, signReqs, conv>>

\* the Sign call of SignData, and the return
SignData_Sign(c) ==
    /\ calls[c].pc = "Sign"
    /\ signReqs' = signReqs \cup
         {[KeyId |-> calls[c].keyEntry.AwsKeyID,
           MessageType |-> "DIGEST",
           SigningAlgorithm |->
               SigningAlgorithm(calls[c].keyEntry.PublicKey.Type),
           call |-> c]}
    /\ \E signErr \in OutcomesFor(c) :
         Return(c, [calls[c] EXCEPT !.pc = "done", !.err = signErr])
    /\ UNCHANGED <<entries, configured, log, kms, now, delReqs, conv>>

GetPublicKey(c, spireKeyID) ==
    /\ CanInvoke(c)
    /\ LET req == [calls[c] EXCEPT !.kind = "GetPublicKey",
                                   !.KeyId = spireKeyID, !.pc = "done"]
           r == entry(entries, spireKeyID)
       IN IF spireKeyID = <<>>
          THEN Return(c, [req EXCEPT !.err = "KeyId is required"])
          ELSE IF ~r.hasKey THEN Return(c, req)
          ELSE Return(c, [req EXCEPT !.PublicKey = r.value.PublicKey])
    /\ UNCHANGED <<entries, configured, log, kms, now, delReqs, signReqs, conv>>

GetPublicKeys(c) ==
    /\ CanInvoke(c)
    /\ Return(c, [calls[c] EXCEPT !.kind = "GetPublicKeys", !.pc = "done",
                                  !.PublicKeys = publicKeys(entries)])
    /\ UNCHANGED <<entries, configured, log, kms, now, delReqs, signReqs, conv>>

-----------------------------------------------------------------------------
(* The plugin serving concurrent calls *)

NoConv ==
    [stage |-> "off", inType |-> "UNSPECIFIED_KEY_TYPE", inSpec |-> "",
     keyType |-> "UNSPECIFIED_KEY_TYPE", keySpec |-> "", err |-> NoErr]

\* the latest of a set of times
LatestOf(ts) == CHOOSE t \in ts : \A u \in ts : u <= t

\* New(), in front of the backend k, with the calls cs still to come
InitWith(backends, cs) ==
    /\ entries = EmptyMap
    /\ configured = "new"
    /\ log = {}
    /\ kms \in {WithKeyIds(k) : k \in backends}
    /\ now = LatestOf({1} \cup {kms[i].CreationDate : i \in 1 .. Len(kms)})
    /\ delReqs = [h \in 1 .. (2 + Cardinality(cs)) |-> 0]
    /\ signReqs = {}
    /\ calls = [c \in cs |-> NewCall]
    /\ conv = NoConv

Init == InitWith(ServingBackends, Calls)

Next ==
    \/ Configure
    \/ \E c \in DOMAIN calls, id \in SpireKeyIds, kt \in GenKeyTypes :
         GenerateKey_CreateKey(c, id, kt)
    \/ \E c \in DOMAIN calls : GenerateKey_GetPublicKey(c)
    \/ \E c \in DOMAIN calls : GenerateKey_entry(c)
    \/ \E c \in DOMAIN calls : GenerateKey_setEntry(c)
    \/ \E c \in DOMAIN calls : GenerateKey_ScheduleKeyDeletion(c)
    \/ \E c \in DOMAIN calls, id \in SpireKeyIds : SignData_entry(c, id)
    \/ \E c \in DOMAIN calls : SignData_Sign(c)
    \/ \E c \in DOMAIN calls, id \in SpireKeyIds \cup {<<>>} : GetPublicKey(c, id)
    \/ \E c \in DOMAIN calls : GetPublicKeys(c)

Spec == Init /\ [][Next]_vars

-----------------------------------------------------------------------------
(* The plugin serving one call after the other *)

SeqBackends ==
    { <<>>, <<KmsKey("ECC_NIST_P256", TRUE, <<keyPrefix, "a">>, 0, 0)>> }

\* the spire key ids the sequential callers ask for
SeqKeyIds == {<<"a">>}

InitSeq == InitWith(SeqBackends, SeqCalls)

\* no call but c is between its invocation and its return
Alone(c) == \A d \in DOMAIN calls : d # c => calls[d].pc \in {"new", "done"}

NextSeq ==
    \/ Configure
    \/ \E c \in DOMAIN calls, id \in SeqKeyIds, kt \in GenKeyTypes :
         Alone(c) /\ GenerateKey_CreateKey(c, id, kt)
    \/ \E c \in DOMAIN calls : Alone(c) /\ GenerateKey_GetPublicKey(c)
    \/ \E c \in DOMAIN calls : Alone(c) /\ GenerateKey_entry(c)
    \/ \E c \in DOMAIN calls : Alone(c) /\ GenerateKey_setEntry(c)
    \/ \E c \in DOMAIN calls : Alone(c) /\ GenerateKey_ScheduleKeyDeletion(c)
    \/ \E c \in DOMAIN calls, id \in SeqKeyIds :
         Alone(c) /\ SignData_entry(c, id)
    \/ \E c \in DOMAIN calls : Alone(c) /\ SignData_Sign(c)
    \/ \E c \in DOMAIN calls, id \in SeqKeyIds \cup {<<>>} :
         Alone(c) /\ GetPublicKey(c, id)
    \/ \E c \in DOMAIN calls : Alone(c) /\ GetPublicKeys(c)

SpecSeq == InitSeq /\ [][NextSeq]_vars

-----------------------------------------------------------------------------
(* Configuration alone, in front of any backend, followed by lookups *)

InitConfigure == InitWith(InitBackends, Calls)

NextConfigure ==
    \/ Configure
    \/ \E c \in DOMAIN calls, id \in SpireKeyIds \cup {<<>>} : GetPublicKey(c, id)
    \/ \E c \in DOMAIN calls : GetPublicKeys(c)

SpecConfigure == InitConfigure /\ [][NextConfigure]_vars

-----------------------------------------------------------------------------
(* The two mapping functions applied to every key type and key spec *)

InitMap ==
    /\ InitWith({<<>>}, Calls)!1
    /\ InitWith({<<>>}, Calls)!2
    /\ InitWith({<<>>}, Calls)!3
    /\ InitWith({<<>>}, Calls)!4
    /\ InitWith({<<>>}, Calls)!5
    /\ InitWith({<<>>}, Calls)!6
    /\ InitWith({<<>>}, Calls)!7
    /\ InitWith({<<>>}, Calls)!8
    /\ conv \in {[NoConv EXCEPT !.stage = "in", !.inType = t, !.inSpec = s,
                                !.keyType = t, !.keySpec = s] :
                    t \in KeyTypes, s \in KeySpecs}

\* keySpec, err := keySpecFromKeyType(keyType)
ApplyKeySpecFromKeyType ==
    /\ conv.stage = "in"
    /\ LET m == keySpecFromKeyType(conv.keyType)
       IN conv' = [conv EXCEPT !.stage = "spec", !.keySpec = m.keySpec,
                               !.err = m.err]
    /\ UNCHANGED <<entries, configured, log, kms, now, delReqs, signReqs, calls>>

\* keyType, err := keyTypeFromKeySpec(keySpec), on an input spec or on the
\* spec keySpecFromKeyType gave
ApplyKeyTypeFromKeySpec ==
    /\ conv.stage \in {"in", "spec"}
    /\ conv.err = NoErr
    /\ LET m == keyTypeFromKeySpec(conv.keySpec)
       IN conv' = [conv EXCEPT
                     !.stage = IF conv.stage = "in" THEN "type" ELSE "back",
                     !.keyType = m.keyType, !.err = m.err]
    /\ UNCHANGED <<entries, configured, log, kms, now, delReqs, signReqs, calls>>

NextMap == ApplyKeySpecFromKeyType \/ ApplyKeyTypeFromKeySpec

SpecMap == InitMap /\ [][NextMap]_vars

-----------------------------------------------------------------------------
(* One call after the other, with contexts that may be cancelled *)

InitCancel == InitWith(SeqBackends, Calls)

NextCancel ==
    \/ Configure
    \/ \E c \in DOMAIN calls : Alone(c) /\ Cancel(c)
    \/ \E c \in DOMAIN calls, id \in SeqKeyIds, kt \in GenKeyTypes :
         Alone(c) /\ GenerateKey_CreateKey(c, id, kt)
    \/ \E c \in DOMAIN calls : Alone(c) /\ GenerateKey_GetPublicKey(c)
    \/ \E c \in DOMAIN calls : Alone(c) /\ GenerateKey_entry(c)
    \/ \E c \in DOMAIN calls : Alone(c) /\ GenerateKey_setEntry(c)
    \/ \E c \in DOMAIN calls : Alone(c) /\ GenerateKey_ScheduleKeyDeletion(c)
    \/ \E c \in DOMAIN calls, id \in SeqKeyIds :
         Alone(c) /\ SignData_entry(c, id)
    \/ \E c \in DOMAIN calls : Alone(c) /\ SignData_Sign(c)
    \/ \E c \in DOMAIN calls, id \in SeqKeyIds \cup {<<>>} :
         Alone(c) /\ GetPublicKey(c, id)
    \/ \E c \in DOMAIN calls : Alone(c) /\ GetPublicKeys(c)

SpecCancel == InitCancel /\ [][NextCancel]_vars

-----------------------------------------------------------------------------
(* A key generated under an id, found again by a restarted plugin *)

\* the spire key ids a label is written for: every string of at most
\* MaxIdLen tokens, the ownership tag among them
IdTokens == {"a", "b", keyPrefix}

LabelIds ==
    UNION { [1 .. n -> IdTokens] : n \in 0 .. MaxIdLen }

InitLabel ==
    /\ InitWith({<<>>}, Calls)!1
    /\ InitWith({<<>>}, Calls)!2
    /\ InitWith({<<>>}, Calls)!3
    /\ InitWith({<<>>}, Calls)!4
    /\ InitWith({<<>>}, Calls)!5
    /\ InitWith({<<>>}, Calls)!6
    /\ InitWith({<<>>}, Calls)!7
    /\ InitWith({<<>>}, Calls)!8
    /\ conv \in {[stage |-> "id", id |-> i] : i \in LabelIds}

\* GenerateKey's CreateKey for conv.id: the backend holds one key with the
\* description written for it
LabelKey ==
    /\ conv.stage = "id"
    /\ kms = <<>>
    /\ kms' = CreateKey(kms, "ECC_NIST_P256", DescriptionOf(conv.id), now)
    /\ conv' = [conv EXCEPT !.stage = "labelled"]
    /\ UNCHANGED <<entries, configured, log, now, delReqs, signReqs, calls>>

\* Configure of a plugin started afterwards, all backend calls succeeding
Reconcile ==
    /\ conv.stage = "labelled"
    /\ configured = "new"
    /\ LET r == ProcessKeys(entries, log, kms, <<1>>, <<NoErr>>, <<NoErr>>, 1)
       IN /\ entries' = r.entries
          /\ log' = r.log
    /\ configured' = "ok"
    /\ conv' = [conv EXCEPT !.stage = "reconciled"]
    /\ UNCHANGED <<kms, now, delReqs, signReqs, calls>>

NextLabel == LabelKey \/ Reconcile

SpecLabel == InitLabel /\ [][NextLabel]_vars

-----------------------------------------------------------------------------
(* Properties of the Key Entry Store *)

\* the step in which GenerateKey call c runs setEntry
PutBy(c) == calls[c].pc = "setEntry" /\ calls'[c].pc # "setEntry"

\* what the Store must be after a Put of e under id that was, or was not, adopted
PutOutcome(c, adopt) ==
    LET id == calls[c].KeyId
        e == calls[c].newEntry
    IN /\ (calls'[c].put = "accepted") <=> adopt
       /\ (calls'[c].put = "rejected") <=> ~adopt
       /\ adopt => entries' = MapSet(entries, id, e)
       /\ ~adopt => entries' = entries

-----------------------------------------------------------------------------
(* Properties of rotation *)

\* C3 as claimed: whenever an entry E exists for id and a GenerateKey on id
\* succeeds with an entry E2 created after E, the key of E has received
\* exactly one ScheduleKeyDeletion request, and the key of E2 none while it
\* is the current entry, under every interleaving of concurrent calls
\* (looked at once every call has returned).
C3_OldKeyDeletedExactlyOnce ==
    \A c \in DOMAIN calls :
      ( /\ \A d \in DOMAIN calls : calls[d].pc \in {"new", "done"}
        /\ calls[c].kind = "GenerateKey"
        /\ calls[c].pc = "done"
        /\ calls[c].err = NoErr
        /\ calls[c].hasOldEntry
        /\ calls[c].newEntry.CreationDate > calls[c].oldEntry.CreationDate )
      => /\ delReqs[calls[c].oldEntry.AwsKeyID] = 1
         /\ entries[calls[c].KeyId].AwsKeyID = calls[c].newEntry.AwsKeyID
              => delReqs[calls[c].newEntry.AwsKeyID] = 0

\* C4: two GenerateKey calls on one id made one after the other with no
\* other call running, the Store holding no entry for the id before the
\* first and the second key created strictly later than the first: one
\* ScheduleKeyDeletion request is made in all, for the first call's key, and
\* a GetPublicKey that follows returns the second call's public key.
C4_SequentialRotation ==
    \A c \in DOMAIN calls :
      ( /\ c + 1 \in DOMAIN calls
        /\ calls[c].kind = "GenerateKey"
        /\ calls[c + 1].kind = "GenerateKey"
        /\ calls[c].KeyId = calls[c + 1].KeyId
        /\ calls[c].put # "none"
        /\ ~calls[c].hasOldEntry
        /\ calls[c + 1].pc = "done"
        /\ calls[c + 1].put # "none"
        /\ calls[c + 1].newEntry.CreationDate > calls[c].newEntry.CreationDate )
      => /\ calls[c].del = 0
         /\ calls[c + 1].del = calls[c].newEntry.AwsKeyID
         /\ delReqs[calls[c].newEntry.AwsKeyID] = 1
         /\ ( /\ c + 2 \in DOMAIN calls
              /\ calls[c + 2].kind = "GetPublicKey"
              /\ calls[c + 2].KeyId = calls[c].KeyId )
            => /\ calls[c + 2].err = NoErr
               /\ calls[c + 2].PublicKey = calls[c + 1].newEntry.PublicKey
               /\ calls[c + 2].PublicKey.PkixData =
                    kms[calls[c + 1].newEntry.AwsKeyID].PublicKey

\* the scenario ran: two generations in a row, then the lookup
C4_Witness ==
    /\ calls[1].kind = "GenerateKey" /\ calls[1].put = "accepted"
    /\ ~calls[1].hasOldEntry
    /\ calls[2].kind = "GenerateKey" /\ calls[2].pc = "done"
    /\ calls[2].KeyId = calls[1].KeyId
    /\ calls[2].newEntry.CreationDate > calls[1].newEntry.CreationDate
    /\ calls[2].del = calls[1].newEntry.AwsKeyID
    /\ calls[3].kind = "GetPublicKey" /\ calls[3].KeyId = calls[1].KeyId
    /\ calls[3].PublicKey = calls[2].newEntry.PublicKey

\* C5: when the Put inside GenerateKey meets a newer entry in the Store, the
\* call makes no ScheduleKeyDeletion request, leaves the Store and the
\* backend as they are, and returns the new entry's public key without an
\* error; the key it created stays enabled and is never asked to be deleted.
C5_RejectedPutIsSilent ==
    [][/\ \A c \in DOMAIN calls :
            ( /\ PutBy(c)
              /\ calls[c].KeyId \in DOMAIN entries
              /\ Unix(entries[calls[c].KeyId].CreationDate) >
                   Unix(calls[c].newEntry.CreationDate) )
            => /\ calls'[c].put = "rejected"
               /\ calls'[c].pc = "done"
               /\ calls'[c].err = NoErr
               /\ calls'[c].PublicKey = calls[c].newEntry.PublicKey
               /\ calls'[c].del = 0
               /\ entries' = entries
               /\ delReqs' = delReqs
               /\ kms' = kms
       /\ \A c \in DOMAIN calls :
            calls'[c].put = "rejected" =>
              /\ delReqs'[calls'[c].newEntry.AwsKeyID] = 0
              /\ kms'[calls'[c].newEntry.AwsKeyID].KeyState = "Enabled"
              /\ entries'[calls'[c].KeyId] # calls'[c].newEntry]_vars

\* a GenerateKey lost the race and returned its own public key
C5_Witness ==
    \E c \in DOMAIN calls :
      /\ calls[c].put = "rejected"
      /\ calls[c].pc = "done"
      /\ calls[c].err = NoErr
      /\ calls[c].PublicKey.PkixData = calls[c].newEntry.AwsKeyID
      /\ entries[calls[c].KeyId].AwsKeyID # calls[c].newEntry.AwsKeyID

-----------------------------------------------------------------------------
(* Properties of signing *)

\* the signing algorithms that go with a key type
AlgorithmsFor(keyType) ==
    CASE keyType \in {"RSA_2048", "RSA_4096"} ->
           {"RSASSA_PSS_SHA_256", "RSASSA_PSS_SHA_384", "RSASSA_PSS_SHA_512",
            "RSASSA_PKCS1_V1_5_SHA_256", "RSASSA_PKCS1_V1_5_SHA_384",
            "RSASSA_PKCS1_V1_5_SHA_512"}
      [] keyType = "EC_P256" -> {"ECDSA_SHA_256"}
      [] keyType = "EC_P384" -> {"ECDSA_SHA_384"}
      [] OTHER -> {}

\* C6 as claimed: every Sign request carries an algorithm of the family of
\* the stored entry's key type: an RSA algorithm for RSA keys, the ECDSA
\* variant of the curve for EC keys.
C6_AlgorithmMatchesKeyType ==
    \A r \in signReqs :
      r.SigningAlgorithm \in AlgorithmsFor(calls[r.call].keyEntry.PublicKey.Type)

\* C7: SignData on an id without an entry returns the not-found error
\* without a Sign request and without touching the Store; on an id with an
\* entry it sends one Sign request naming the key of the entry it read.
C7_SignNotFoundOrCurrentHandle ==
    [][\A c \in DOMAIN calls :
         /\ ( calls[c].pc = "new" /\ calls'[c].kind = "SignData" )
            => /\ entries' = entries
               /\ signReqs' = signReqs
               /\ IF calls'[c].KeyId \in DOMAIN entries
                  THEN /\ calls'[c].pc = "Sign"
                       /\ calls'[c].keyEntry = entries[calls'[c].KeyId]
                  ELSE /\ calls'[c].pc = "done"
                       /\ calls'[c].err = "unable to find KeyId"
         /\ ( calls[c].pc = "Sign" /\ calls'[c].pc # "Sign" )
            => /\ entries' = entries
               /\ \E r \in signReqs' :
                    /\ signReqs' = signReqs \cup {r}
                    /\ r \notin signReqs
                    /\ r.call = c
                    /\ r.KeyId = calls[c].keyEntry.AwsKeyID
                    /\ r.KeyId \in DOMAIN kms
         /\ calls'[c].err = "unable to find KeyId"
            => \A r \in signReqs' : r.call # c]_vars

\* one SignData found no entry, another one signed with the stored key
C7_Witness ==
    \E c, d \in DOMAIN calls :
      /\ calls[c].kind = "SignData" /\ calls[c].pc = "done"
      /\ calls[c].err = "unable to find KeyId"
      /\ calls[d].kind = "SignData" /\ calls[d].pc = "done"
      /\ \E r \in signReqs :
           r.call = d /\ r.KeyId = entries[calls[d].KeyId].AwsKeyID

-----------------------------------------------------------------------------
(* Properties of reconciliation *)

\* the four key specs with a key type
SupportedSpecs == {"RSA_2048", "RSA_4096", "ECC_NIST_P256", "ECC_NIST_P384"}

\* backend key h is enabled and its label starts with the ownership tag
Owned(h) ==
    /\ kms[h].Enabled
    /\ Len(kms[h].Description) >= 1
    /\ kms[h].Description[1] = keyPrefix

\* the backend keys Configure logged a failed backend call for
BackendFailed == {r.KeyId : r \in {x \in log : x.error = "BackendFailure"}}

\* the keys reconciliation has to bring into the Store
Reconcilable ==
    {h \in DOMAIN kms : /\ Owned(h)
                        /\ kms[h].CustomerMasterKeySpec \in SupportedSpecs
                        /\ h \notin BackendFailed}

\* C8 as claimed, counting only the keys whose describe and fetch calls did
\* not fail: after Configure on an empty Store there are as many entries as
\* enabled, tagged backend keys of a supported spec, none of them derived
\* from a disabled or untagged key, and none at all for an empty listing.
C8_OneEntryPerOwnedKey ==
    configured = "ok" =>
      /\ Cardinality(DOMAIN entries) = Cardinality(Reconcilable)
      /\ \A id \in DOMAIN entries : Owned(entries[id].AwsKeyID)
      /\ kms = <<>> =>
           \A c \in DOMAIN calls :
             calls[c].kind = "GetPublicKeys" => calls[c].PublicKeys = {}

\* C8 amended: after Configure on an empty Store there is exactly one entry
\* for each distinct spire key id carried by the enabled, tagged backend
\* keys of a supported spec whose describe and fetch calls succeeded; every
\* entry is derived from such a key, none from a disabled or untagged key;
\* an empty listing leaves GetPublicKeys with nothing to return.
C8_OneEntryPerOwnedKeyId ==
    configured = "ok" =>
      /\ DOMAIN entries =
           {SpireKeyIdOf(kms[h].Description) : h \in Reconcilable}
      /\ Cardinality(DOMAIN entries) <= Cardinality(Reconcilable)
      /\ \A id \in DOMAIN entries :
           /\ entries[id].AwsKeyID \in Reconcilable
           /\ Owned(entries[id].AwsKeyID)
           /\ SpireKeyIdOf(kms[entries[id].AwsKeyID].Description) = id
           /\ entries[id].PublicKey.Id = id
      /\ kms = <<>> =>
           /\ entries = EmptyMap
           /\ \A c \in DOMAIN calls :
                calls[c].kind = "GetPublicKeys" => calls[c].PublicKeys = {}

\* two owned keys of one spire key id were reconciled into one entry, and
\* GetPublicKeys returned it
C8_Witness ==
    /\ configured = "ok"
    /\ Cardinality(Reconcilable) = 2
    /\ Cardinality(DOMAIN entries) = 1
    /\ \E c \in DOMAIN calls :
         calls[c].kind = "GetPublicKeys" /\ Cardinality(calls[c].PublicKeys) = 1

\* C9: a key whose describe or fetch call fails, or whose spec is not
\* supported, is logged and skipped, and every other enabled, tagged key
\* of a supported spec is still put into the Store (it is the entry of its
\* id unless another such key of that id is) while Configure succeeds; a
\* failed ListKeys leaves Configure failed and the Store as it was.
C9_FailuresAreIsolated ==
    /\ configured = "err" => entries = EmptyMap /\ log = {}
    /\ configured = "ok" =>
         /\ \A h \in Reconcilable :
              LET id == SpireKeyIdOf(kms[h].Description)
              IN /\ id \in DOMAIN entries
                 /\ Unix(entries[id].CreationDate) >= Unix(kms[h].CreationDate)
                 /\ ( \A g \in Reconcilable :
                        g # h => SpireKeyIdOf(kms[g].Description) # id )
                    => /\ entries[id].AwsKeyID = h
                       /\ entries[id].CreationDate = kms[h].CreationDate
                       /\ entries[id].PublicKey.PkixData = kms[h].PublicKey
         /\ \A r \in log :
              /\ r.KeyId \in DOMAIN kms
              /\ r.error = "unsupported" =>
                   kms[r.KeyId].CustomerMasterKeySpec \notin SupportedSpecs
              /\ \A id \in DOMAIN entries : entries[id].AwsKeyID # r.KeyId

\* Configure succeeded with one key logged as failed and another stored
C9_Witness ==
    /\ configured = "ok"
    /\ \E r \in log :
         /\ Owned(r.KeyId)
         /\ r.error = "BackendFailure"
         /\ kms[r.KeyId].CustomerMasterKeySpec \in SupportedSpecs
    /\ \E id \in DOMAIN entries : entries[id].AwsKeyID \in Reconcilable

-----------------------------------------------------------------------------
(* Properties of the type mapping *)

SupportedKeyTypes == {"RSA_2048", "RSA_4096", "EC_P256", "EC_P384"}

\* C10: keyTypeFromKeySpec gives back every supported key type from the
\* spec keySpecFromKeyType gave for it, without an error; every other key
\* type and every other key spec is answered with an error.
C10_TypeMappingRoundTrip ==
    /\ conv.stage = "spec" =>
         /\ conv.err = NoErr <=> conv.inType \in SupportedKeyTypes
         /\ conv.err = NoErr => conv.keySpec \in SupportedSpecs
    /\ conv.stage = "type" =>
         /\ conv.err = NoErr <=> conv.inSpec \in SupportedSpecs
         /\ conv.err = NoErr => conv.keyType \in SupportedKeyTypes
    /\ conv.stage = "back" =>
         /\ conv.inType \in SupportedKeyTypes
         /\ conv.err = NoErr
         /\ conv.keyType = conv.inType

\* a curve made the round trip
C10_Witness ==
    /\ conv.stage = "back"
    /\ conv.inType = "EC_P384"
    /\ conv.keySpec = "ECC_NIST_P384"
    /\ conv.keyType = "EC_P384"

-----------------------------------------------------------------------------
(* Properties of GenerateKey's error paths *)

\* call c is invoked as a GenerateKey in this step
GenerateKeyInvoked(c) ==
    calls[c].pc = "new" /\ calls'[c].pc # "new" /\ calls'[c].kind = "GenerateKey"

\* C11: a GenerateKey for a key type that is not supported returns an
\* unsupported error at once: no key is created, no public key fetched, no
\* deletion scheduled, and the Store is as it was.
C11_UnsupportedFailsFast ==
    [][\A c \in DOMAIN calls :
         (GenerateKeyInvoked(c) /\ calls'[c].KeyType \notin SupportedKeyTypes)
           => /\ calls'[c].pc = "done"
              /\ calls'[c].err \in {"unsupported", "unknown and unsupported"}
              /\ calls'[c].PublicKey = NilPublicKey
              /\ calls'[c].newEntry = NilEntry
              /\ calls'[c].put = "none" /\ calls'[c].del = 0
              /\ kms' = kms /\ delReqs' = delReqs /\ now' = now
              /\ entries' = entries]_vars

\* a GenerateKey for RSA_1024 returned while the Store held an entry
C11_Witness ==
    \E c \in DOMAIN calls :
      /\ calls[c].kind = "GenerateKey" /\ calls[c].pc = "done"
      /\ calls[c].KeyType = "RSA_1024"
      /\ calls[c].err = "unsupported"
      /\ calls[c].KeyId \in DOMAIN entries

\* C12 as claimed: a GenerateKey whose ctx is cancelled before it returns,
\* during CreateKey, during GetPublicKey or between the fetch and the Put,
\* never puts into the Store: the Put step of a cancelled call leaves the
\* Store as it was, and a call cancelled before a backend call gets no
\* further than that call.
C12_CancelledNeverPuts ==
    [][\A c \in DOMAIN calls :
         /\ (PutBy(c) /\ calls[c].cancelled)
              => entries' = entries /\ calls'[c].put # "accepted"
         /\ ( /\ calls[c].cancelled
              /\ calls[c].pc \in {"new", "GetPublicKey"}
              /\ calls'[c].pc # calls[c].pc
              /\ calls'[c].kind = "GenerateKey" )
              => calls'[c].pc = "done" /\ entries' = entries]_vars

-----------------------------------------------------------------------------
(* Properties of the Store over the whole run *)

\* call d has seen an entry for its KeyId: a lookup or a SignData found it,
\* a GenerateKey read it as the old entry or put its own
Found(d) ==
    \/ /\ calls[d].kind = "GetPublicKey"
       /\ calls[d].pc = "done"
       /\ calls[d].PublicKey # NilPublicKey
    \/ calls[d].kind = "SignData" /\ calls[d].keyEntry # NilEntry
    \/ /\ calls[d].kind = "GenerateKey"
       /\ calls[d].hasOldEntry \/ calls[d].put = "accepted"

\* call c reads the entry of id in this step and finds it
ReadsAndFinds(c, id) ==
    \/ /\ calls[c].pc = "new" /\ calls'[c].pc # "new"
       /\ calls'[c].KeyId = id
       /\ calls'[c].kind = "GetPublicKey"
            => calls'[c].err = NoErr /\ calls'[c].PublicKey # NilPublicKey
       /\ calls'[c].kind = "SignData"
            => calls'[c].pc = "Sign" /\ calls'[c].keyEntry # NilEntry
    \/ /\ calls[c].pc = "entry" /\ calls'[c].pc # "entry"
       /\ calls[c].KeyId = id
       /\ calls'[c].hasOldEntry

\* call c reads the entry of id in this step
Reads(c, id) ==
    \/ /\ calls[c].pc = "new" /\ calls'[c].pc # "new"
       /\ calls'[c].KeyId = id
       /\ calls'[c].kind \in {"GetPublicKey", "SignData"}
    \/ /\ calls[c].pc = "entry" /\ calls'[c].pc # "entry"
       /\ calls[c].KeyId = id

\* C13: no entry is ever removed from the Store: once a call has found an
\* entry for an id, the id stays in the Store through every later step of
\* Configure, GenerateKey, SignData and the lookups, failing ones included,
\* and every later read of the id finds an entry.
C13_EntriesNeverRemoved ==
    [][\A d \in DOMAIN calls :
         Found(d) =>
           /\ calls[d].KeyId \in DOMAIN entries
           /\ calls[d].KeyId \in DOMAIN entries'
           /\ \A c \in DOMAIN calls :
                Reads(c, calls[d].KeyId) => ReadsAndFinds(c, calls[d].KeyId)]_vars

\* a lookup found an id, and a later GenerateKey for that id that failed
\* after its Put left the id in the Store
C13_Witness ==
    \E c, d \in DOMAIN calls :
      /\ c < d
      /\ calls[c].kind = "GetPublicKey" /\ Found(c)
      /\ calls[d].kind = "GenerateKey" /\ calls[d].pc = "done"
      /\ calls[d].KeyId = calls[c].KeyId
      /\ calls[d].put = "accepted" /\ calls[d].err # NoErr
      /\ calls[d].KeyId \in DOMAIN entries

-----------------------------------------------------------------------------
(* Properties of the label *)

\* C14 as claimed: the id reconciliation parses from the label GenerateKey
\* wrote for an id is that id, also when the id contains the ownership tag,
\* so the key is found again under its id by a plugin started afterwards.
C14_LabelRoundTrip ==
    /\ conv.stage \in {"labelled", "reconciled"} =>
         /\ kms[1].Description = DescriptionOf(conv.id)
         /\ SpireKeyIdOf(kms[1].Description) = conv.id
    /\ conv.stage = "reconciled" =>
         /\ conv.id \in DOMAIN entries
         /\ entries[conv.id].AwsKeyID = 1

-----------------------------------------------------------------------------
(* Properties of rotation under concurrent calls *)

\* C15 as claimed: the key a GenerateKey hands to ScheduleKeyDeletion is
\* the key of the entry that was in the Store at the instant its accepted
\* Put replaced it, in every interleaving of concurrent GenerateKey calls:
\* the old entry it read is still the stored one when its Put is accepted.
C15_DeletesWhatItsPutReplaced ==
    [][\A c \in DOMAIN calls :
         (PutBy(c) /\ calls'[c].pc = "ScheduleKeyDeletion")
           => /\ calls[c].KeyId \in DOMAIN entries
              /\ entries[calls[c].KeyId] = calls[c].oldEntry
              /\ DeletionInput(calls'[c].oldEntry, calls'[c].newEntry) =
                   entries[calls[c].KeyId].AwsKeyID]_vars

\* no ScheduleKeyDeletion request was ever made for the key of an entry the
\* Store holds
StoredKeysNeverScheduled ==
    \A id \in DOMAIN entries : delReqs[entries[id].AwsKeyID] = 0

\* call c sends its Sign request in this step
SignSentBy(c) == calls[c].pc = "Sign" /\ calls'[c].pc # "Sign"

\* call c reads the entry it will sign with in this step
SignReadBy(c) ==
    calls[c].pc = "new" /\ calls'[c].pc = "Sign"

\* C16 as claimed: in every state of every interleaving the key of the
\* Store's entry for an id has never been the target of a
\* ScheduleKeyDeletion request, and no Sign request names a key a
\* ScheduleKeyDeletion request was made for.
C16_SignNeverUsesScheduledKey ==
    [][/\ StoredKeysNeverScheduled
       /\ StoredKeysNeverScheduled'
       /\ \A c \in DOMAIN calls :
            SignSentBy(c) => delReqs[calls[c].keyEntry.AwsKeyID] = 0]_vars

\* C16 amended: in every state of every interleaving the key of the
\* Store's entry for an id has never been the target of a
\* ScheduleKeyDeletion request, so the key a SignData reads from the Store
\* has no such request when it is read; when the Sign request is sent it
\* names that same key, whatever was scheduled in between.
C16_SignReadsUnscheduledKey ==
    [][/\ StoredKeysNeverScheduled
       /\ StoredKeysNeverScheduled'
       /\ \A c \in DOMAIN calls :
            /\ SignReadBy(c) =>
                 /\ delReqs[calls'[c].keyEntry.AwsKeyID] = 0
                 /\ kms[calls'[c].keyEntry.AwsKeyID].KeyState # "PendingDeletion"
            /\ SignSentBy(c) =>
                 \E r \in signReqs' \ signReqs :
                   r.call = c /\ r.KeyId = calls[c].keyEntry.AwsKeyID]_vars

\* a SignData holds a key it read from the Store, about to send its request,
\* after a rotation scheduled that key for deletion
C16_Witness ==
    \E c \in DOMAIN calls :
      /\ calls[c].kind = "SignData" /\ calls[c].pc = "Sign"
      /\ delReqs[calls[c].keyEntry.AwsKeyID] > 0
      /\ kms[calls[c].keyEntry.AwsKeyID].KeyState = "PendingDeletion"
      /\ entries[calls[c].KeyId].AwsKeyID # calls[c].keyEntry.AwsKeyID
      /\ StoredKeysNeverScheduled

\* the ScheduleKeyDeletion call of c returns an error in this step
DeletionFailedBy(c) ==
    /\ calls[c].pc = "ScheduleKeyDeletion"
    /\ calls'[c].pc = "done"
    /\ calls'[c].err # NoErr

\* C17: when the Put of a rotation was accepted and the ScheduleKeyDeletion
\* call that follows fails, GenerateKey returns that error and no public
\* key, and nothing is rolled back: the Store is as the Put left it (the new
\* entry is the entry of the id unless another call has put since) and the
\* backend is as it was, the old key still undeleted unless another call
\* has scheduled it.
C17_FailedDeletionKeepsPut ==
    [][\A c \in DOMAIN calls :
         DeletionFailedBy(c) =>
           LET id == calls[c].KeyId
               old == calls[c].oldEntry.AwsKeyID
           IN /\ calls[c].put = "accepted" /\ calls[c].hasOldEntry
              /\ calls'[c].err = "BackendFailure"
              /\ calls'[c].PublicKey = NilPublicKey
              /\ calls'[c].del = old
              /\ entries' = entries
              /\ id \in DOMAIN entries'
              /\ \/ entries'[id] = calls[c].newEntry
                 \/ \E d \in DOMAIN calls \ {c} :
                      /\ calls[d].KeyId = id
                      /\ calls[d].put = "accepted"
                      /\ entries'[id] = calls[d].newEntry
              /\ kms' = kms
              /\ delReqs[old] = 0 =>
                   kms'[old].KeyState = "Enabled" /\ kms'[old].Enabled]_vars

\* a rotation returned the error of its ScheduleKeyDeletion call: the Store
\* holds its new entry and the old key is still enabled at the backend
C17_Witness ==
    \E c \in DOMAIN calls :
      /\ calls[c].kind = "GenerateKey" /\ calls[c].pc = "done"
      /\ calls[c].put = "accepted" /\ calls[c].del # 0
      /\ calls[c].err = "BackendFailure"
      /\ entries[calls[c].KeyId] = calls[c].newEntry
      /\ delReqs[calls[c].del] = 1
      /\ kms[calls[c].del].KeyState = "Enabled"

-----------------------------------------------------------------------------
(* Properties of reconciliation over the listing orders *)

\* the spire key ids of the keys reconciliation has to bring into the Store
ReconcilableIds == {SpireKeyIdOf(kms[h].Description) : h \in Reconcilable}

\* the keys among them that carry id
KeysOf(id) == {h \in Reconcilable : SpireKeyIdOf(kms[h].Description) = id}

\* those of the latest whole second
LatestSecondKeysOf(id) ==
    {h \in KeysOf(id) :
       \A g \in KeysOf(id) : Unix(kms[g].CreationDate) <= Unix(kms[h].CreationDate)}

C18_SameSecondWitness ==
    /\ configured = "ok"
    /\ \E id \in ReconcilableIds :
         /\ Cardinality(LatestSecondKeysOf(id)) = 2
         /\ \E g \in KeysOf(id) :
              kms[g].CreationDate > entries[id].CreationDate

====
